---- MODULE Spec2Model ----
(***************************************************************************)
(* Booking / template-occurrence engine of the RCRC boat booking app.      *)
(*                                                                         *)
(* The store is the Supabase database (bookings, booking_templates,        *)
(* template_exceptions, template_confirmations, members) guarded by the    *)
(* row level security policies of supabase/schema.sql.  The clients are    *)
(* the React handlers of src/App.tsx, which decide from their own state    *)
(* (editingBooking, role flags) and then talk to the store.  The cron      *)
(* endpoints under api/push run with the service role.                     *)
(*                                                                         *)
(* Time is counted in slots; a calendar date has SlotsPerDay slots and the *)
(* timestamp of slot s on date d is d * SlotsPerDay + s.                   *)
(*                                                                         *)
(* A handler that returns early or whose write the store refuses changes   *)
(* nothing: its action is then not enabled.  What a write would leave in   *)
(* the table is an operator of its own (UpdateWrite, DeleteWrite,          *)
(* ResolveUsageWrite, UsageSweepWrite), and so is the banner a handler     *)
(* ends with (ResolveUsageBanner).                                         *)
(*                                                                         *)
(* Specifications:                                                         *)
(*   Spec           handlers one at a time, each on the row just clicked   *)
(*   SpecForms      the same, with edit forms left open while others act   *)
(*   SpecOverlap    the same as Spec, with room for two bookings           *)
(*   SpecGeneric    the same as Spec, one template having no boat          *)
(*   SpecCaptains   the same as Spec, the template on a permission boat    *)
(*   SpecTemplates  the template form and the answers for occurrences      *)
(*   SpecAccess     bookings, the usage sweep and the removal of members   *)
(*   SpecSweep      the template sweep over the days, and the answers      *)
(*   SpecRace       create / resolve requests interleaved at the store     *)
(*   SpecUsageRace  usage resolutions interleaved at the store             *)
(*   SpecSweepRun   the template sweep call by call, its store calls       *)
(*                  failing or not, and the answers in between             *)
(*   SpecSweepAlone the template sweep call by call, nobody else acting    *)
(*   SpecDaily      the template sweep run every day (fairness)            *)
(*   SpecNotify     the three scheduled jobs, a member subscribed to push  *)
(***************************************************************************)
EXTENDS Integers, FiniteSets, Sequences, TLC

\* ---------------------------------------------------------------- bounds
MaxDay == 1
SlotsPerDay == 4
MaxNow == 3
MaxBookings == 2
MaxToday == 2
MaxPush == 2

\* ------------------------------------------------------------- constants
\* '07:30', the operating-hours floor, as a slot of the day
OpenSlot == 1
\* a nullable timestamp column holding null
NullTime == -1
\* a nullable boat reference holding null
NoBoat == 0
\* number of boats of the club in the model
NumBoats == 2
\* idle marker of a client's in-flight request
Idle == "idle"

NoMember == "none"
NoId == 0

Actors == {"a", "m", "g"}

\* allowed_member.role of every actor (the client's userRole / isAdmin state)
RoleOf(c) == IF c = "a" THEN "admin" ELSE IF c = "m" THEN "coordinator" ELSE "guest"

Boats == 1..NumBoats
Dates == 0..MaxDay
Slots == 0..(SlotsPerDay - 1)

\* boats.usage_type, lower-cased as the handlers compare it
UsageType(b) == IF b = 1 THEN "" ELSE "captains permission"

\* boat_permissions rows (boat_id, member_id)
BoatPermissions == {}

VARIABLES
    now,                    \* the clock, in slots
    members,                \* members / allowed_member rows (by member id)
    bookings,               \* rows of table bookings
    nextBookingId,          \* ids handed out so far + 1
    booking_templates,      \* rows of table booking_templates
    template_exceptions,    \* rows of table template_exceptions: <<template_id, date>>
    template_confirmations, \* rows of table template_confirmations
    editingBooking,         \* the booking row held by an edit form left open
    inflight,               \* per client: the request between its read and its write
    push_subscriptions,     \* rows of table push_subscriptions
    booking_usage_notifications, \* rows of the dedupe table: booking ids
    booking_reminders,      \* rows of table booking_reminders: <<booking_id, remind_at>>
    pushed,                 \* the messages handed to sendToMember: notice -> count
    sweepRun                \* the template sweep between its reads and its last write

vars == <<now, members, bookings, nextBookingId, booking_templates,
          template_exceptions, template_confirmations, editingBooking, inflight,
          push_subscriptions, booking_usage_notifications, booking_reminders,
          pushed, sweepRun>>

store == <<members, bookings, nextBookingId, booking_templates,
           template_exceptions, template_confirmations>>

forms == <<editingBooking, inflight>>

\* the state of the scheduled jobs under api/push
jobs == <<push_subscriptions, booking_usage_notifications, booking_reminders,
          pushed, sweepRun>>

\* ------------------------------------------------------------ pure helpers
\* toDateTime(date, time): new Date(`${date}T${time}:00`)
toDateTime(date, slot) == date * SlotsPerDay + slot

\* the calendar date of a timestamp (getTodayString / toDateInputValue)
DateOf(ts) == ts \div SlotsPerDay

\* getWeekdayIndex(date): days are counted from a Sunday
getWeekdayIndex(date) == date % 7

\* half-open interval overlap as the queries state it:
\* .lt('start_time', end).gt('end_time', start)
Overlaps(row, start, end) == row.start_time < end /\ row.end_time > start

\* isPastBooking(booking): bookingStart < Date.now()
isPastBooking(booking) == booking.start_time < now

isPendingBooking(booking) == booking.usage_status = "pending"

isSettledBooking(booking) == booking.usage_status \in {"confirmed", "cancelled"}

\* client-side role flags
isAdmin(c) == RoleOf(c) = "admin"
isGuest(c) == RoleOf(c) = "guest"

\* canEditBooking(booking)
canEditBooking(c, booking) ==
    IF isGuest(c) THEN FALSE
    ELSE IF isAdmin(c) THEN TRUE
    ELSE booking.member_id = c

\* canModifyBooking(booking)
canModifyBooking(c, booking) ==
    /\ canEditBooking(c, booking)
    /\ ~isPendingBooking(booking)
    /\ ~isPastBooking(booking)

\* canEditTemplate(item)
canEditTemplate(c, item) ==
    IF isGuest(c) THEN FALSE
    ELSE IF isAdmin(c) THEN TRUE
    ELSE item.member_id = c

\* ------------------------------------------------- row level security
\* allowed_member role in ('admin','coordinator') for the caller
RlsCanWrite(c) == c \in members /\ RoleOf(c) \in {"admin", "coordinator"}

\* exists (select 1 from admins where member_id = caller)
RlsIsAdmin(c) == c \in members /\ RoleOf(c) = "admin"

\* policies "Bookings insert/update/delete for authed"
RlsBookingMut(c, member_id) == RlsCanWrite(c)
RlsBooking(c, member_id) ==
    /\ RlsCanWrite(c)
    /\ (member_id = c \/ RlsIsAdmin(c))

\* ------------------------------------------------------------------ Init
\* no edit form left open (editingBooking = null)
NoEditing == [client |-> NoMember, id |-> NoId, member_id |-> NoMember,
              start_time |-> 0, usage_status |-> "scheduled"]

\* what the edit form of client c keeps of the clicked row
\* (setEditingBooking(booking))
Snapshot(c, b) == [client |-> c, id |-> b.id, member_id |-> b.member_id,
                   start_time |-> b.start_time, usage_status |-> b.usage_status]

\* a client with no request between its reads and its write
NoRequest == [kind |-> Idle, id |-> NoId, boats |-> {}, member_id |-> NoMember,
              start_time |-> 0, end_time |-> 0, status |-> "", template_id |-> NoId,
              date |-> 0]

\* template time-of-day columns are Postgres `time` values HH:MM:SS, kept here
\* as 2 * slot + seconds part; normalizeTime(value) = value.slice(0, 5)
normalizeTime(value) == value \div 2

\* booking_templates rows as supabase/templates_seed.sql inserts them
\* (seconds are :00)
SeedTemplates ==
    { [id |-> 1, weekday |-> 0, boat_id |-> 1, member_id |-> "m",
       start_time |-> 2 * OpenSlot, end_time |-> 2 * (OpenSlot + 1)],
      [id |-> 2, weekday |-> 1, boat_id |-> 1, member_id |-> "g",
       start_time |-> 2 * (OpenSlot + 1), end_time |-> 2 * (OpenSlot + 2)] }

\* a seeded template with boat_id null: a generic slot without boat
GenericTemplate ==
    [id |-> 3, weekday |-> 0, boat_id |-> NoBoat, member_id |-> "m",
     start_time |-> 2 * (OpenSlot + 1), end_time |-> 2 * (OpenSlot + 2)]

\* a template on the boat that needs the captain's permission, held by a
\* member without a boat_permissions row
CaptainsTemplate ==
    [id |-> 4, weekday |-> 1, boat_id |-> 2, member_id |-> "m",
     start_time |-> 2 * OpenSlot, end_time |-> 2 * (OpenSlot + 1)]

\* a pending confirmation as the template sweep (api/push/
\* template-confirmations.js) inserted it on an earlier day
PendingRow(t, d) ==
    [template_id |-> t.id, occurrence_date |-> d, member_id |-> t.member_id,
     status |-> "pending", booking_id |-> NoId, responded_at |-> NullTime,
     notified_at |-> 0, listed |-> TRUE]

\* the occurrences of templates on the modelled dates
Occurrences(templates) ==
    { <<t, d>> \in templates \X Dates : getWeekdayIndex(d) = t.weekday }

\* the store with the given templates and confirmations and no booking yet;
\* firstId is the id the next inserted booking gets
InitTables(templates, firstId, confirmations) ==
    /\ now = 0
    /\ members = Actors
    /\ bookings = {}
    /\ nextBookingId = firstId
    /\ booking_templates = templates
    /\ template_exceptions = {}
    /\ template_confirmations = confirmations
    /\ editingBooking = NoEditing
    /\ inflight = [c \in Actors |-> NoRequest]

\* no template sweep is running
NoRun ==
    [phase |-> Idle, today |-> 0, templates |-> {}, exceptionSet |-> {},
     confirmationMap |-> {}, done |-> {}]

\* the scheduled jobs have sent nothing yet; subs are the push_subscriptions
\* rows the members registered through api/push/subscribe.js
InitJobs(subs) ==
    /\ push_subscriptions = subs
    /\ booking_usage_notifications = {}
    /\ booking_reminders = {}
    /\ pushed = [n \in {} |-> 0]
    /\ sweepRun = NoRun

\* the same store while no member has subscribed to push messages
InitStore(templates, firstId, confirmations) ==
    /\ InitTables(templates, firstId, confirmations)
    /\ InitJobs({})

\* the store with the given templates and their pending confirmations
InitWith(templates, firstId) ==
    InitStore(templates, firstId,
              { PendingRow(o[1], o[2]) : o \in Occurrences(templates) })

Init == InitWith(SeedTemplates, MaxBookings)

\* ----------------------------------------------------------------- clock
Tick ==
    /\ now < MaxNow
    /\ now' = now + 1
    /\ UNCHANGED <<store, forms, jobs>>

\* ------------------------------------------------------ booking form (UI)
\* handleBookingClick on a booking pill of the schedule; the form stays open
OpenBooking(c, b) ==
    /\ b \in bookings
    /\ canEditBooking(c, b)
    /\ editingBooking # Snapshot(c, b)
    /\ editingBooking' = Snapshot(c, b)
    /\ UNCHANGED <<now, store, inflight, jobs>>

\* the form is closed: setEditingBooking(null)
CloseBooking(c) ==
    /\ editingBooking.client = c
    /\ editingBooking' = NoEditing
    /\ UNCHANGED <<now, store, inflight, jobs>>

\* the editingBooking values client c can submit: the form left open, or a
\* row clicked just now
Forms(c) ==
    { Snapshot(c, b) : b \in { x \in bookings : canEditBooking(c, x) } }
        \cup (IF editingBooking.client = c THEN {editingBooking} ELSE {})

\* resetBookingForm() after a successful save or delete
ResetForm(editing) == IF editing = editingBooking THEN NoEditing ELSE editingBooking

\* ------------------------------------------------------ handleSaveBooking
\* the usage_type loop over the selected boats
BoatUsageAllowed(c, boatIds) ==
    \A b \in boatIds :
        /\ UsageType(b) # "restricted"
        /\ (UsageType(b) = "captains permission" /\ ~isAdmin(c))
               => <<b, c>> \in BoatPermissions

\* every check of handleSaveBooking that precedes the conflict query
SaveChecksPassMut(c, editing, boatIds, memberId, d, s, e) ==
    /\ ~isGuest(c)
    /\ boatIds # {}
    /\ memberId # NoMember
    /\ ~(~isAdmin(c) /\ editing.id # NoId /\ ~canEditBooking(c, editing))
    /\ BoatUsageAllowed(c, boatIds)
    /\ (editing.id # NoId => canModifyBooking(c, editing))
    /\ ~(toDateTime(d, s) < now)
    /\ ~(toDateTime(d, e) <= toDateTime(d, s))
SaveChecksPass(c, editing, boatIds, memberId, d, s, e) ==
    /\ ~isGuest(c)
    /\ boatIds # {}
    /\ memberId # NoMember
    /\ ~(~isAdmin(c) /\ editing.id # NoId /\ ~canEditBooking(c, editing))
    /\ BoatUsageAllowed(c, boatIds)
    /\ (editing.id # NoId => canModifyBooking(c, editing))
    /\ ~(toDateTime(d, s) < now)
    /\ ~(toDateTime(d, s) < toDateTime(d, OpenSlot))
    /\ ~(toDateTime(d, e) <= toDateTime(d, s))

\* conflictQuery: bookings of the selected boats overlapping [start, end),
\* without the booking being edited
BookingConflictsMut(boatIds, start, end, excludeId) ==
    { b \in bookings : /\ b.boat_id \in boatIds
                       /\ b.start_time = start
                       /\ b.id # excludeId }
BookingConflicts(boatIds, start, end, excludeId) ==
    { b \in bookings : /\ b.boat_id \in boatIds
                       /\ Overlaps(b, start, end)
                       /\ b.id # excludeId }

\* templateBookings state as loadBookings fills it for the selected date
templateBookings(d) ==
    { t \in booking_templates : t.weekday = getWeekdayIndex(d) }

\* the template pills of scheduleItems in the schedule view of date d, from
\* the templates and exceptions loadBookings read for that date
scheduleItems(d) ==
    { t \in templateBookings(d) :
        /\ t.id \notin { e[1] : e \in { x \in template_exceptions : x[2] = d } }
        /\ d >= DateOf(now) }

\* templateConflicts filter of handleSaveBooking
TemplateConflictsMut(boatIds, d, start, end) == {}
TemplateConflicts(boatIds, d, start, end) ==
    { t \in templateBookings(d) :
        /\ t.boat_id # NoBoat
        /\ t.boat_id \in boatIds
        /\ toDateTime(d, normalizeTime(t.start_time)) < end
        /\ toDateTime(d, normalizeTime(t.end_time)) > start }

\* handleSaveBooking up to the write: validations and both conflict checks
SaveAllowed(c, editing, boatIds, memberId, d, s, e) ==
    /\ SaveChecksPass(c, editing, boatIds, memberId, d, s, e)
    /\ BookingConflicts(boatIds, toDateTime(d, s), toDateTime(d, e), editing.id) = {}
    /\ TemplateConflicts(boatIds, d, toDateTime(d, s), toDateTime(d, e)) = {}

\* a row as the store inserts it (usage_status defaults to 'scheduled')
NewBooking(id, boat, memberId, start, end) ==
    [id |-> id, boat_id |-> boat, member_id |-> memberId,
     start_time |-> start, end_time |-> end, usage_status |-> "scheduled",
     usage_confirmed_at |-> NullTime, usage_confirmed_by |-> NoMember]

\* the store accepts a bookings row written by c for memberId: policy check,
\* member foreign key, end_after_start; the table has no overlap constraint
StoreAcceptsBooking(c, memberId, start, end) ==
    /\ RlsBooking(c, memberId)
    /\ memberId \in members
    /\ end > start

Rank(b, S) == Cardinality({ x \in S : x < b })

\* effectiveMemberId
EffectiveMember(c, memberInput) == IF isAdmin(c) THEN memberInput ELSE c

\* handleSaveBooking with editingBooking = null; every early return and
\* every refused write leaves the store as it is
SaveBookingCreate(c, boatIds, memberInput, d, s, e) ==
    /\ LET memberId == EffectiveMember(c, memberInput)
           start == toDateTime(d, s)
           end == toDateTime(d, e)
       IN  /\ SaveAllowed(c, NoEditing, boatIds, memberId, d, s, e)
           /\ StoreAcceptsBooking(c, memberId, start, end)
           /\ nextBookingId + Cardinality(boatIds) - 1 <= MaxBookings
           /\ bookings' = bookings \cup
                  { NewBooking(nextBookingId + Rank(b, boatIds), b, memberId,
                               start, end) : b \in boatIds }
           /\ nextBookingId' = nextBookingId + Cardinality(boatIds)
    /\ UNCHANGED <<now, members, booking_templates, template_exceptions,
                   template_confirmations, forms, jobs>>

\* .update({...}).eq('id', editingBooking.id) under the update policy
UpdateTarget(c, editing) ==
    { b \in bookings : b.id = editing.id /\ RlsBooking(c, b.member_id) }

\* the rows of bookings after handleSaveBooking ran on the form `editing`
UpdateWrite(c, editing, boat, memberId, start, end) ==
    LET target == UpdateTarget(c, editing)
    IN  IF target = {} \/ StoreAcceptsBooking(c, memberId, start, end)
        THEN (bookings \ target) \cup
                 { [b EXCEPT !.boat_id = boat, !.member_id = memberId,
                             !.start_time = start, !.end_time = end] : b \in target }
        ELSE bookings

\* handleSaveBooking with a booking in the edit form
SaveBookingUpdate(c, editing, boat, memberInput, d, s, e) ==
    /\ editing \in Forms(c)
    /\ LET memberId == EffectiveMember(c, memberInput)
           start == toDateTime(d, s)
           end == toDateTime(d, e)
       IN  /\ SaveAllowed(c, editing, {boat}, memberId, d, s, e)
           /\ UpdateTarget(c, editing) = {} \/ StoreAcceptsBooking(c, memberId, start, end)
           /\ bookings' = UpdateWrite(c, editing, boat, memberId, start, end)
           /\ editingBooking' = ResetForm(editing)
    /\ UNCHANGED <<now, members, nextBookingId, booking_templates,
                   template_exceptions, template_confirmations, inflight, jobs>>

\* ---------------------------------------------------- handleDeleteBooking
\* the rows of bookings after handleDeleteBooking ran on the form `editing`
DeleteWrite(c, editing) ==
    IF canModifyBooking(c, editing) THEN bookings \ UpdateTarget(c, editing) ELSE bookings

DeleteBooking(c, editing) ==
    /\ editing \in Forms(c)
    /\ canModifyBooking(c, editing)
    /\ bookings' = DeleteWrite(c, editing)
    \* template_confirmations.booking_id ... on delete set null
    /\ template_confirmations' =
           { IF r.booking_id \in { b.id : b \in UpdateTarget(c, editing) }
             THEN [r EXCEPT !.booking_id = NoId] ELSE r : r \in template_confirmations }
    /\ editingBooking' = ResetForm(editing)
    \* booking_usage_notifications / booking_reminders.booking_id ... on
    \* delete cascade
    /\ booking_usage_notifications' =
           { id \in booking_usage_notifications :
               id \in { b.id : b \in DeleteWrite(c, editing) } }
    /\ booking_reminders' =
           { r \in booking_reminders :
               r[1] \in { b.id : b \in DeleteWrite(c, editing) } }
    /\ UNCHANGED <<now, members, nextBookingId, booking_templates, template_exceptions,
                   inflight, push_subscriptions, pushed, sweepRun>>

\* -------------------------------------------- handleResolvePendingBooking
\* const canResolve = isAdmin || booking.member_id === currentMember.id
canResolve(c, booking) == isAdmin(c) \/ booking.member_id = c

\* .update({...}).eq('id', booking.id).eq('usage_status', 'pending')
ResolveUsageTargetMut(c, id) ==
    { b \in bookings : b.id = id /\ RlsBooking(c, b.member_id) }
ResolveUsageTarget(c, id) ==
    { b \in bookings : /\ b.id = id
                       /\ b.usage_status = "pending"
                       /\ RlsBooking(c, b.member_id) }

\* the rows of bookings after the conditional update sent by c
ResolveUsageWrite(c, id, usageStatus) ==
    LET target == ResolveUsageTarget(c, id)
    IN  (bookings \ target) \cup
            { [b EXCEPT !.usage_status = usageStatus,
                        !.usage_confirmed_at = now,
                        !.usage_confirmed_by = c] : b \in target }

\* the banner handleResolvePendingBooking ends with: setError for a caller
\* who may not resolve; otherwise the update returns no error, also when it
\* matched no row, and setStatus('Outing confirmed.' / 'Booking marked as
\* not used.') follows
ResolveUsageBanner(c, booking) == IF canResolve(c, booking) THEN "status" ELSE "error"

ResolvePendingBooking(c, booking, usageStatus) ==
    /\ booking \in bookings
    /\ canResolve(c, booking)
    /\ bookings' = ResolveUsageWrite(c, booking.id, usageStatus)
    /\ UNCHANGED <<now, members, nextBookingId, booking_templates,
                   template_exceptions, template_confirmations, forms, jobs>>

\* ------------------------------------------------ api/push: sendToMember
\* what a push endpoint answers to webpush.sendNotification: 201 accepts the
\* message, every other status makes sendNotification throw
PushAnswers == {201, 404, 410, 500}

SubscriptionIds == { s.id : s \in push_subscriptions }

\* err.statusCode on which the subscription row is deleted
SubscriptionGoneMut(status) == status # 201
SubscriptionGone(status) == status \in {404, 410}

\* push_subscriptions after sendToMember(memberId, payload), the endpoint of
\* subscription s answering answers[s.id]
sendToMember(subs, memberId, answers) ==
    { s \in subs : ~(s.member_id = memberId /\ SubscriptionGone(answers[s.id])) }

\* push_subscriptions after the sendToMember calls of a run
AfterSends(notices, answers) ==
    { s \in push_subscriptions :
        \A n \in notices : s \in sendToMember(push_subscriptions, n[1], answers) }

\* the value sendToMember returns: some endpoint accepted the message
Delivered(memberId, answers) ==
    \E s \in push_subscriptions : s.member_id = memberId /\ answers[s.id] = 201

\* the messages handed to sendToMember so far, with those of a run added
Dispatch(notices) ==
    IF notices = {} THEN pushed ELSE
    [n \in DOMAIN pushed \cup notices |->
        (IF n \in DOMAIN pushed THEN pushed[n] ELSE 0)
            + (IF n \in notices THEN 1 ELSE 0)]

\* the count of a message stays within the modelled range
CanDispatch(notices) ==
    \A n \in notices \cap DOMAIN pushed : pushed[n] < MaxPush

\* ------------------------------------- api/push/usage-reminders.js handler
\* the rows the bulk update selects
UsageSweepSelectsMut(b) ==
    /\ b.usage_status = "scheduled"
    /\ b.end_time <= now
    /\ b.member_id # NoMember
UsageSweepSelects(b) ==
    /\ b.usage_status = "scheduled"
    /\ b.end_time < now
    /\ b.member_id # NoMember

\* the rows of bookings after .update({ usage_status: 'pending' }) on them
UsageSweepWrite ==
    { IF UsageSweepSelects(b) THEN [b EXCEPT !.usage_status = "pending"] ELSE b
      : b \in bookings }

\* the loop over the pending bookings: those it looks at
UsagePending ==
    { b \in UsageSweepWrite : b.usage_status = "pending" /\ b.member_id # NoMember }

\* the insert into booking_usage_notifications answers 23505 when the row
\* exists; failed holds the bookings whose insert fails with another error
UsageDuplicate(b, failed) ==
    b.id \notin failed /\ b.id \in booking_usage_notifications

\* the bookings the loop sends a message for: `continue` on 23505 only
UsageNotified(failed) ==
    { b \in UsagePending : ~UsageDuplicate(b, failed) }

\* the messages 'Booking confirmation required' of a run
UsageNotices(failed) ==
    { <<b.member_id, "confirmation required", b.id, b.start_time>> :
        b \in UsageNotified(failed) }

\* one run of the handler, with the service role
UsageSweepRun(failed, answers) ==
    /\ CanDispatch(UsageNotices(failed))
    /\ bookings' = UsageSweepWrite
    /\ booking_usage_notifications' =
           booking_usage_notifications \cup
               { b.id : b \in { x \in UsagePending : x.id \notin failed } }
    /\ pushed' = Dispatch(UsageNotices(failed))
    /\ push_subscriptions' = AfterSends(UsageNotices(failed), answers)
    /\ UNCHANGED <<now, members, nextBookingId, booking_templates,
                   template_exceptions, template_confirmations, forms,
                   booking_reminders, sweepRun>>

\* a run in which no insert fails
UsageSweep ==
    \E answers \in [SubscriptionIds -> PushAnswers] : UsageSweepRun({}, answers)

\* ------------------------------------------- api/push/reminders.js handler
\* nowLondon.plus({ hours: 1 }): the reminder goes out one slot ahead
ReminderLead == 1

\* the bookings starting within two minutes of one hour from now
ReminderDue ==
    { b \in bookings : b.start_time = now + ReminderLead /\ b.member_id # NoMember }

\* the insert into booking_reminders answers 23505 when the row exists;
\* failed holds the bookings whose insert fails with another error
ReminderDuplicate(b, failed) ==
    b.id \notin failed /\ <<b.id, b.start_time>> \in booking_reminders

\* the bookings the loop sends a reminder for: `continue` on 23505 only
ReminderSent(failed) ==
    { b \in ReminderDue : ~ReminderDuplicate(b, failed) }

\* the messages 'Safety assessment reminder' of a run
ReminderNotices(failed) ==
    { <<b.member_id, "reminder", b.id, b.start_time>> : b \in ReminderSent(failed) }

\* one run of the handler, with the service role
ReminderJob(failed, answers) ==
    /\ CanDispatch(ReminderNotices(failed))
    /\ booking_reminders' =
           booking_reminders \cup
               { <<b.id, b.start_time>> : b \in { x \in ReminderDue : x.id \notin failed } }
    /\ pushed' = Dispatch(ReminderNotices(failed))
    /\ push_subscriptions' = AfterSends(ReminderNotices(failed), answers)
    /\ UNCHANGED <<now, store, forms, booking_usage_notifications, sweepRun>>

\* ----------------------------------------------------- handleDeleteAccess
\* members row removed: bookings.member_id / usage_confirmed_by and
\* booking_templates.member_id are set null, template_confirmations cascade
DeleteAccess(c, target) ==
    /\ target \in members
    /\ target # c
    /\ isAdmin(c)
    /\ members' = members \ {target}
    /\ bookings' =
           { [b EXCEPT !.member_id = IF @ = target THEN NoMember ELSE @,
                       !.usage_confirmed_by = IF @ = target THEN NoMember ELSE @]
             : b \in bookings }
    /\ booking_templates' =
           { [t EXCEPT !.member_id = IF @ = target THEN NoMember ELSE @]
             : t \in booking_templates }
    /\ template_confirmations' =
           { r \in template_confirmations : r.member_id # target }
    \* push_subscriptions.member_id ... on delete cascade
    /\ push_subscriptions' = { s \in push_subscriptions : s.member_id # target }
    /\ UNCHANGED <<now, nextBookingId, template_exceptions, forms,
                   booking_usage_notifications, booking_reminders, pushed, sweepRun>>

\* ----------------------------------------------- resolveTemplateOccurrence
\* policy "Template exceptions insert for authed"
RlsExceptionInsert(c, templateId) ==
    \E bt \in booking_templates :
        /\ bt.id = templateId
        /\ RlsCanWrite(c)
        /\ (bt.member_id = c \/ RlsIsAdmin(c))

\* .upsert(exceptionPayload, {onConflict}) by a client: template_exceptions
\* has no update policy, so the upsert of an existing row is refused
ExceptionUpsertOkMut(c, templateId, d) ==
    RlsExceptionInsert(c, templateId)
ExceptionUpsertOk(c, templateId, d) ==
    /\ <<templateId, d>> \notin template_exceptions
    /\ RlsExceptionInsert(c, templateId)

\* template_exceptions after the upsert of {template_id, exception_date}
ExceptionUpsertedMut(templateId, d) == template_exceptions
ExceptionUpserted(templateId, d) == template_exceptions \cup {<<templateId, d>>}

\* policies "Template confirmations insert/update for authed"
RlsConfirmation(c, member_id) == (member_id = c /\ c \in members) \/ RlsIsAdmin(c)

ConfirmationAt(rows, templateId, d) ==
    { r \in rows : r.template_id = templateId /\ r.occurrence_date = d }

\* the booking window of an occurrence: `${occurrenceDate}T${startTime}:00`
OccurrenceStart(template, d) == toDateTime(d, normalizeTime(template.start_time))
OccurrenceEnd(template, d) == toDateTime(d, normalizeTime(template.end_time))

\* the conflict query of resolveTemplateOccurrence
ResolveConflictsMut(template, d) == {}
ResolveConflicts(template, d) ==
    { b \in bookings : /\ b.boat_id = template.boat_id
                       /\ Overlaps(b, OccurrenceStart(template, d), OccurrenceEnd(template, d)) }

\* the reads of the confirmed branch: boat check and conflict query
ResolveAllowedMut(template, d) ==
    ResolveConflicts(template, d) = {}
ResolveAllowed(template, d) ==
    /\ template.boat_id # NoBoat
    /\ ResolveConflicts(template, d) = {}

\* the template_confirmations write: update by id, or upsert on
\* (template_id, occurrence_date) when no confirmationId is passed
ConfirmationWriteMut(c, byId, templateId, memberId, d, nextStatus, bookingId) ==
    [ok |-> TRUE,
     rows |-> { IF r \in ConfirmationAt(template_confirmations, templateId, d)
                THEN [r EXCEPT !.status = nextStatus, !.responded_at = now] ELSE r
                : r \in template_confirmations }]
ConfirmationWrite(c, byId, templateId, memberId, d, nextStatus, bookingId) ==
    LET existing == ConfirmationAt(template_confirmations, templateId, d)
        visible == { r \in existing : RlsConfirmation(c, r.member_id) }
        resolved(r) == [r EXCEPT !.status = nextStatus, !.booking_id = bookingId,
                                 !.responded_at = now]
        fresh == [template_id |-> templateId, occurrence_date |-> d,
                  member_id |-> memberId, status |-> nextStatus,
                  booking_id |-> bookingId, responded_at |-> now,
                  notified_at |-> NullTime, listed |-> FALSE]
        allowed == RlsConfirmation(c, memberId) /\ memberId \in members
    IN  IF byId
        THEN [ok |-> TRUE,
              rows |-> (template_confirmations \ visible)
                          \cup { resolved(r) : r \in visible }]
        ELSE IF existing = {}
        THEN [ok |-> allowed,
              rows |-> IF allowed THEN template_confirmations \cup {fresh}
                       ELSE template_confirmations]
        ELSE IF visible = existing /\ allowed
        THEN [ok |-> TRUE,
              rows |-> (template_confirmations \ existing)
                          \cup { [resolved(r) EXCEPT !.member_id = memberId]
                                 : r \in existing }]
        ELSE [ok |-> FALSE, rows |-> template_confirmations]

\* the booking insert of the confirmed branch is accepted by the store
ResolveInserts(c, template, memberId, d, nextStatus) ==
    /\ nextStatus = "confirmed"
    /\ StoreAcceptsBooking(c, memberId, OccurrenceStart(template, d),
                           OccurrenceEnd(template, d))

\* resolveTemplateOccurrence returns without throwing
ResolveSucceeds(c, byId, template, memberId, d, nextStatus) ==
    /\ nextStatus = "confirmed" =>
           ResolveAllowed(template, d) /\ ResolveInserts(c, template, memberId, d, nextStatus)
    /\ ExceptionUpsertOk(c, template.id, d)
    /\ ConfirmationWrite(c, byId, template.id, memberId, d, nextStatus, NoId).ok

\* the writes of resolveTemplateOccurrence, in the order the code awaits
\* them: booking insert (confirmed only), exception upsert, confirmation;
\* a throw keeps what was written before it
ResolveWrites(c, byId, template, memberId, d, nextStatus) ==
    LET inserted == ResolveInserts(c, template, memberId, d, nextStatus)
        bookingId == IF inserted THEN nextBookingId ELSE NoId
        write == ConfirmationWrite(c, byId, template.id, memberId, d, nextStatus, bookingId)
    IN  /\ nextStatus = "confirmed" => inserted
        /\ IF inserted
           THEN /\ nextBookingId <= MaxBookings
                /\ bookings' = bookings \cup
                       { NewBooking(nextBookingId, template.boat_id, memberId,
                                    OccurrenceStart(template, d),
                                    OccurrenceEnd(template, d)) }
                /\ nextBookingId' = nextBookingId + 1
           ELSE UNCHANGED <<bookings, nextBookingId>>
        /\ IF ExceptionUpsertOk(c, template.id, d)
           THEN /\ template_exceptions' = ExceptionUpserted(template.id, d)
                /\ template_confirmations' = write.rows
           ELSE UNCHANGED <<template_exceptions, template_confirmations>>

\* resolveTemplateOccurrence({confirmationId, template, templateId, memberId,
\* occurrenceDate, nextStatus})
resolveTemplateOccurrence(c, byId, template, memberId, d, nextStatus) ==
    /\ nextStatus = "confirmed" => ResolveAllowed(template, d)
    /\ ResolveWrites(c, byId, template, memberId, d, nextStatus)

\* the guard of handleResolveTemplateConfirmation
canResolveTemplate(c, confirmation) == isAdmin(c) \/ confirmation.member_id = c

\* handleResolveTemplateConfirmation(confirmation, nextStatus) from the
\* pending list
ResolveTemplateConfirmation(c, confirmation, nextStatus) ==
    /\ confirmation \in template_confirmations
    /\ confirmation.listed
    /\ canResolveTemplate(c, confirmation)
    /\ \E template \in booking_templates :
        /\ template.id = confirmation.template_id
        /\ resolveTemplateOccurrence(c, TRUE, template, confirmation.member_id,
                                     confirmation.occurrence_date, nextStatus)
    /\ UNCHANGED <<now, members, booking_templates, forms, jobs>>

\* handleConfirmTemplateBooking on a template pill of the schedule of date d
ConfirmTemplateBooking(c, template, d) ==
    /\ template \in templateBookings(d)
    /\ d >= DateOf(now)
    /\ template.member_id # NoMember
    /\ canEditTemplate(c, template)
    /\ resolveTemplateOccurrence(c, FALSE, template, template.member_id, d, "confirmed")
    /\ UNCHANGED <<now, members, booking_templates, forms, jobs>>

\* ------------------------------------------------------ handleSaveTemplate
\* the conflict query on booking_templates and the filter that drops the
\* template being edited; the form's HH:MM values compare as HH:MM:00
TemplateSaveConflictsMut(editingId, weekday, boat, s, e) ==
    { t \in booking_templates :
        /\ t.weekday = weekday
        /\ t.boat_id = boat
        /\ t.start_time < 2 * e
        /\ t.end_time > 2 * s }
TemplateSaveConflicts(editingId, weekday, boat, s, e) ==
    { t \in booking_templates :
        /\ t.weekday = weekday
        /\ t.boat_id = boat
        /\ t.start_time < 2 * e
        /\ t.end_time > 2 * s
        /\ t.id # editingId }

\* every check of handleSaveTemplate that precedes the write
TemplateSaveAllowed(c, editingId, memberId, weekday, boat, s, e) ==
    /\ isAdmin(c)
    /\ memberId # NoMember
    /\ ~(e <= s)
    /\ boat # NoBoat => TemplateSaveConflicts(editingId, weekday, boat, s, e) = {}

\* the row of the payload
TemplatePayload(id, memberId, weekday, boat, s, e) ==
    [id |-> id, weekday |-> weekday, boat_id |-> boat, member_id |-> memberId,
     start_time |-> 2 * s, end_time |-> 2 * e]

\* the table once the payload is written: over the edited row, or as a new
\* row with an id of its own
TemplateSaved(editingId, memberId, weekday, boat, s, e) ==
    LET used == { t.id : t \in booking_templates } \cup {NoId}
        newId == (CHOOSE i \in used : \A j \in used : j <= i) + 1
    IN  IF editingId # NoId
        THEN { IF t.id = editingId
               THEN TemplatePayload(t.id, memberId, weekday, boat, s, e) ELSE t
               : t \in booking_templates }
        ELSE booking_templates \cup
                 { TemplatePayload(newId, memberId, weekday, boat, s, e) }

\* booking_templates has row level security enabled and policies for select
\* and for delete only: no client may insert or update a row
RlsTemplateWrite(c) == FALSE

\* booking_templates after handleSaveTemplate: the insert is refused with an
\* error; the update matches no row and returns none
TemplateSaveWrite(c, editingId, memberId, weekday, boat, s, e) ==
    IF RlsTemplateWrite(c) /\ memberId \in members
    THEN TemplateSaved(editingId, memberId, weekday, boat, s, e)
    ELSE booking_templates

\* handleSaveTemplate on the template form
SaveTemplate(c, editingId, memberId, weekday, boat, s, e) ==
    /\ editingId \in { t.id : t \in booking_templates } \cup {NoId}
    /\ TemplateSaveAllowed(c, editingId, memberId, weekday, boat, s, e)
    /\ editingId = NoId => RlsTemplateWrite(c) /\ memberId \in members
    /\ booking_templates' = TemplateSaveWrite(c, editingId, memberId, weekday, boat, s, e)
    /\ UNCHANGED <<now, members, bookings, nextBookingId, template_exceptions,
                   template_confirmations, forms, jobs>>

\* ------------------------------------------------- handleDeleteTemplateRow
\* policy "Templates delete for authed"
RlsTemplateDelete(c, t) ==
    /\ RlsCanWrite(c)
    /\ (t.member_id = c \/ RlsIsAdmin(c))

\* the template row is deleted; its exceptions and confirmations cascade
DeleteTemplateRow(c, t) ==
    /\ t \in booking_templates
    /\ isAdmin(c)
    /\ RlsTemplateDelete(c, t)
    /\ booking_templates' = booking_templates \ {t}
    /\ template_exceptions' = { x \in template_exceptions : x[1] # t.id }
    /\ template_confirmations' =
           { r \in template_confirmations : r.template_id # t.id }
    /\ UNCHANGED <<now, members, bookings, nextBookingId, forms, jobs>>

\* ---------------------------------------------------- handleDeleteTemplate
\* .insert({template_id, exception_date}): refused by the insert policy or by
\* unique (template_id, exception_date)
ExceptionInsertOk(c, templateId, d) ==
    /\ RlsExceptionInsert(c, templateId)
    /\ <<templateId, d>> \notin template_exceptions

\* the upsert of the cancelled confirmation; its error is not looked at
DeleteTemplateConfirmations(c, template, d) ==
    LET existing == ConfirmationAt(template_confirmations, template.id, d)
        allowed == /\ template.member_id \in members
                   /\ RlsConfirmation(c, template.member_id)
        fresh == [template_id |-> template.id, occurrence_date |-> d,
                  member_id |-> template.member_id, status |-> "cancelled",
                  booking_id |-> NoId, responded_at |-> now,
                  notified_at |-> NullTime, listed |-> FALSE]
    IN  IF ~allowed \/ \E r \in existing : ~RlsConfirmation(c, r.member_id)
        THEN template_confirmations
        ELSE IF existing = {}
        THEN template_confirmations \cup {fresh}
        ELSE (template_confirmations \ existing)
                 \cup { [r EXCEPT !.member_id = template.member_id,
                                  !.status = "cancelled",
                                  !.responded_at = now] : r \in existing }

\* handleDeleteTemplate on a template pill of the schedule of date d: the
\* occurrence is removed
DeleteTemplate(c, template, d) ==
    /\ template \in templateBookings(d)
    /\ d >= DateOf(now)
    /\ canEditTemplate(c, template)
    /\ ExceptionInsertOk(c, template.id, d)
    /\ template_exceptions' = template_exceptions \cup {<<template.id, d>>}
    /\ template_confirmations' = DeleteTemplateConfirmations(c, template, d)
    /\ UNCHANGED <<now, members, bookings, nextBookingId, booking_templates, forms, jobs>>

\* ------------------------------ api/push/template-confirmations.js handler
\* today.plus({ days: 3 }): the date whose occurrences are asked about
NotifyAhead == 3

\* today.plus({ days: 1 }), today.plus({ days: 2 }): the dates whose
\* occurrences are removed unless confirmed
AutoCancelAhead == {1, 2}

notificationDate == DateOf(now) + NotifyAhead

autoCancelDates == { DateOf(now) + k : k \in AutoCancelAhead }

\* the (template, date) pairs the loop does not skip: the template has a
\* member, the weekday matches and no exception exists for the pair
SweepVisitsMut(t, d) ==
    /\ t.member_id # NoMember
    /\ getWeekdayIndex(d) = t.weekday
SweepVisits(t, d) ==
    /\ t.member_id # NoMember
    /\ getWeekdayIndex(d) = t.weekday
    /\ <<t.id, d>> \notin template_exceptions

\* occurrences on the notification date that are not resolved yet
SweepAsks ==
    { t \in booking_templates :
        /\ SweepVisits(t, notificationDate)
        /\ \A r \in ConfirmationAt(template_confirmations, t.id, notificationDate) :
               r.status \notin {"confirmed", "cancelled"} }

\* occurrences on the auto-cancel dates that are not confirmed
SweepCancelsMut == {}
SweepCancels ==
    { o \in booking_templates \X autoCancelDates :
        /\ SweepVisits(o[1], o[2])
        /\ \A r \in ConfirmationAt(template_confirmations, o[1].id, o[2]) :
               r.status # "confirmed" }

\* the push messages of a run: <<member, kind, template id, date>>
SweepNoticesMut ==
    { <<t.member_id, "needs confirmation", t.id, notificationDate>> : t \in SweepAsks }
    \cup
    { <<o[1].member_id, "removed", o[1].id, o[2]>> : o \in SweepCancels }
SweepNotices ==
    { <<t.member_id, "needs confirmation", t.id, notificationDate>> :
        t \in { x \in SweepAsks :
                   \A r \in ConfirmationAt(template_confirmations, x.id, notificationDate) :
                       r.notified_at = NullTime } }
    \cup
    { <<o[1].member_id, "removed", o[1].id, o[2]>> :
        o \in { x \in SweepCancels :
                   \A r \in ConfirmationAt(template_confirmations, x[1].id, x[2]) :
                       r.status # "cancelled" } }

\* template_confirmations after a run: pending rows inserted and marked
\* notified on the notification date, cancelled rows upserted on the
\* auto-cancel dates
SweepConfirmations ==
    LET asked(r) == \E t \in SweepAsks :
                        r \in ConfirmationAt(template_confirmations, t.id, notificationDate)
        cancelled(r) == \E o \in SweepCancels :
                            r \in ConfirmationAt(template_confirmations, o[1].id, o[2])
        owner(r) == CHOOSE t \in booking_templates : t.id = r.template_id
    IN  { IF asked(r) /\ r.notified_at = NullTime
          THEN [r EXCEPT !.notified_at = now]
          ELSE IF cancelled(r)
          THEN [r EXCEPT !.member_id = owner(r).member_id, !.status = "cancelled",
                         !.responded_at = now]
          ELSE r : r \in template_confirmations }
        \cup
        { [PendingRow(t, notificationDate) EXCEPT !.notified_at = now] :
            t \in { x \in SweepAsks :
                       ConfirmationAt(template_confirmations, x.id, notificationDate) = {} } }
        \cup
        { [template_id |-> o[1].id, occurrence_date |-> o[2],
           member_id |-> o[1].member_id, status |-> "cancelled",
           booking_id |-> NoId, responded_at |-> now, notified_at |-> NullTime,
           listed |-> FALSE] :
            o \in { x \in SweepCancels :
                       ConfirmationAt(template_confirmations, x[1].id, x[2]) = {} } }

\* template_exceptions after a run
SweepExceptionsMut == template_exceptions
SweepExceptions ==
    template_exceptions \cup { <<o[1].id, o[2]>> : o \in SweepCancels }

\* one run of the handler, with the service role
TemplateSweepWith(answers) ==
    /\ CanDispatch(SweepNotices)
    /\ template_confirmations' = SweepConfirmations
    /\ template_exceptions' = SweepExceptions
    /\ pushed' = Dispatch(SweepNotices)
    /\ push_subscriptions' = AfterSends(SweepNotices, answers)
    /\ UNCHANGED <<now, members, bookings, nextBookingId, booking_templates,
                   forms, booking_usage_notifications, booking_reminders,
                   sweepRun>>

\* the same, whatever the push endpoints answer
TemplateSweep ==
    \E answers \in [SubscriptionIds -> PushAnswers] : TemplateSweepWith(answers)

\* midnight: the clock moves to the start of the next date
NextDay ==
    /\ DateOf(now) < MaxToday
    /\ now' = toDateTime(DateOf(now) + 1, 0)
    /\ UNCHANGED <<store, forms, jobs>>

\* ---------------- the same handler, one await after the other
\* the writes of the handler that a fault of the store can fail
SweepFaults == {"none", "insert", "update", "exception", "cancel"}

\* the handler up to and including its reads: today and the dates derived
\* from it, the templates with a member, the exceptions and confirmations
\* of the relevant dates
BeginSweep ==
    /\ sweepRun.phase = Idle
    /\ sweepRun' =
           [phase |-> "running",
            today |-> DateOf(now),
            templates |-> { t \in booking_templates : t.member_id # NoMember },
            exceptionSet |->
                { x \in template_exceptions :
                    x[2] \in {notificationDate} \cup autoCancelDates },
            confirmationMap |->
                { r \in template_confirmations :
                    r.occurrence_date \in {notificationDate} \cup autoCancelDates },
            done |-> {}]
    /\ UNCHANGED <<now, store, forms, push_subscriptions,
                   booking_usage_notifications, booking_reminders, pushed>>

\* the (template, date) pairs the loop of the run has still to visit; a
\* template matches one of the three dates at most, so every order of
\* these pairs is an order of the templates
RunTodo ==
    { o \in sweepRun.templates
             \X ({sweepRun.today + NotifyAhead}
                    \cup { sweepRun.today + k : k \in AutoCancelAhead }) :
        /\ getWeekdayIndex(o[2]) = o[1].weekday
        /\ <<o[1].id, o[2]>> \notin sweepRun.exceptionSet
        /\ <<o[1].id, o[2]>> \notin sweepRun.done }

\* the foreign keys of a template_confirmations / template_exceptions row
\* written for template t
SweepRowAccepted(t) ==
    /\ \E x \in booking_templates : x.id = t.id
    /\ t.member_id \in members

\* template_confirmations after .upsert({template_id, member_id,
\* occurrence_date, status}, {onConflict: 'template_id,occurrence_date'}):
\* a row stored for the pair keeps its other columns
SweepUpsert(t, d, status, respondedAt) ==
    LET stored == ConfirmationAt(template_confirmations, t.id, d)
        fresh == [PendingRow(t, d) EXCEPT !.notified_at = NullTime,
                                          !.status = status,
                                          !.responded_at = respondedAt,
                                          !.listed = (status = "pending")]
    IN  IF stored = {}
        THEN template_confirmations \cup {fresh}
        ELSE (template_confirmations \ stored)
                 \cup { [r EXCEPT !.member_id = t.member_id, !.status = status,
                                  !.responded_at =
                                      IF status = "pending" THEN @ ELSE respondedAt]
                        : r \in stored }

\* one iteration of the loop for the pair o, decided on the rows read at
\* the start of the run: what it leaves in the two tables, the messages it
\* hands to sendToMember, and whether it returns with status 500
SweepIteration(o, fault) ==
    LET t == o[1]
        d == o[2]
        key == <<t.id, d>>
        existingConfirmation == ConfirmationAt(sweepRun.confirmationMap, t.id, d)
        skip == [confirmations |-> template_confirmations,
                 exceptions |-> template_exceptions,
                 notices |-> {}, error |-> FALSE]
        \* lines 150-207
        inserted == IF existingConfirmation = {}
                    THEN SweepUpsert(t, d, "pending", NullTime)
                    ELSE template_confirmations
        confirmation == IF existingConfirmation = {}
                        THEN ConfirmationAt(inserted, t.id, d)
                        ELSE existingConfirmation
        ask == <<t.member_id, "needs confirmation", t.id, d>>
        notified == { IF r \in ConfirmationAt(inserted, t.id, d)
                      THEN [r EXCEPT !.notified_at = now] ELSE r : r \in inserted }
        \* lines 209-264
        removed == <<t.member_id, "removed", t.id, d>>
    IN  IF d = sweepRun.today + NotifyAhead
        THEN IF \E r \in existingConfirmation : r.status \in {"confirmed", "cancelled"}
             THEN skip
             ELSE IF existingConfirmation = {}
                     /\ (fault = "insert" \/ ~SweepRowAccepted(t))
             THEN [skip EXCEPT !.error = TRUE]
             ELSE IF \A r \in confirmation : r.notified_at # NullTime
             THEN [skip EXCEPT !.confirmations = inserted]
             ELSE IF fault = "update"
             THEN [skip EXCEPT !.confirmations = inserted, !.notices = {ask},
                               !.error = TRUE]
             ELSE [skip EXCEPT !.confirmations = notified, !.notices = {ask}]
        ELSE IF \E r \in existingConfirmation : r.status = "confirmed"
             THEN skip
             ELSE IF fault = "exception" \/ ~\E x \in booking_templates : x.id = t.id
             THEN [skip EXCEPT !.error = TRUE]
             ELSE IF fault = "cancel" \/ ~SweepRowAccepted(t)
             THEN [skip EXCEPT !.exceptions = template_exceptions \cup {key},
                               !.error = TRUE]
             ELSE [skip EXCEPT
                     !.exceptions = template_exceptions \cup {key},
                     !.confirmations = SweepUpsert(t, d, "cancelled", now),
                     !.notices = IF \A r \in existingConfirmation :
                                        r.status # "cancelled"
                                 THEN {removed} ELSE {}]

\* the loop body for one pair; on an error the handler returns and the run
\* is over
SweepStep(o, fault, answers) ==
    /\ sweepRun.phase # Idle
    /\ o \in RunTodo
    /\ CanDispatch(SweepIteration(o, fault).notices)
    /\ template_confirmations' = SweepIteration(o, fault).confirmations
    /\ template_exceptions' = SweepIteration(o, fault).exceptions
    /\ pushed' = Dispatch(SweepIteration(o, fault).notices)
    /\ push_subscriptions' = AfterSends(SweepIteration(o, fault).notices, answers)
    /\ sweepRun' = IF SweepIteration(o, fault).error
                   THEN NoRun
                   ELSE [sweepRun EXCEPT !.done = @ \cup {<<o[1].id, o[2]>>}]
    /\ UNCHANGED <<now, members, bookings, nextBookingId, booking_templates,
                   forms, booking_usage_notifications, booking_reminders>>

\* the loop is over: the handler answers 200
EndSweep ==
    /\ sweepRun.phase # Idle
    /\ RunTodo = {}
    /\ sweepRun' = NoRun
    /\ UNCHANGED <<now, store, forms, push_subscriptions,
                   booking_usage_notifications, booking_reminders, pushed>>

\* ------------------------------------------- requests racing at the store
\* a handler awaits its conflict query and then its write; between the two
\* other clients' requests reach the store
Request(kind, id, boatIds, memberId, start, end, status, templateId, d) ==
    [kind |-> kind, id |-> id, boats |-> boatIds, member_id |-> memberId,
     start_time |-> start, end_time |-> end, status |-> status,
     template_id |-> templateId, date |-> d]

\* handleSaveBooking (create) up to and including its conflict query
BeginCreate(c, boatIds, memberInput, d, s, e) ==
    /\ inflight[c].kind = Idle
    /\ SaveAllowed(c, NoEditing, boatIds, EffectiveMember(c, memberInput), d, s, e)
    /\ inflight' = [inflight EXCEPT ![c] =
           Request("insert", NoId, boatIds, EffectiveMember(c, memberInput),
                   toDateTime(d, s), toDateTime(d, e), "", NoId, d)]
    /\ UNCHANGED <<now, store, editingBooking, jobs>>

\* the insert of handleSaveBooking reaches the store
FinishCreate(c) ==
    LET r == inflight[c]
    IN  /\ r.kind = "insert"
        /\ nextBookingId + Cardinality(r.boats) - 1 <= MaxBookings
        /\ IF StoreAcceptsBooking(c, r.member_id, r.start_time, r.end_time)
           THEN /\ bookings' = bookings \cup
                       { NewBooking(nextBookingId + Rank(b, r.boats), b, r.member_id,
                                    r.start_time, r.end_time) : b \in r.boats }
                /\ nextBookingId' = nextBookingId + Cardinality(r.boats)
           ELSE UNCHANGED <<bookings, nextBookingId>>
        /\ inflight' = [inflight EXCEPT ![c] = NoRequest]
        /\ UNCHANGED <<now, members, booking_templates, template_exceptions,
                       template_confirmations, editingBooking, jobs>>

\* handleResolveTemplateConfirmation(confirmation, 'confirmed') up to and
\* including the conflict query of resolveTemplateOccurrence
BeginResolve(c, confirmation) ==
    /\ inflight[c].kind = Idle
    /\ confirmation \in template_confirmations
    /\ confirmation.listed
    /\ canResolveTemplate(c, confirmation)
    /\ \E template \in booking_templates :
        /\ template.id = confirmation.template_id
        /\ ResolveAllowed(template, confirmation.occurrence_date)
        /\ inflight' = [inflight EXCEPT ![c] =
               Request("resolve", NoId, {template.boat_id}, confirmation.member_id,
                       OccurrenceStart(template, confirmation.occurrence_date),
                       OccurrenceEnd(template, confirmation.occurrence_date),
                       "confirmed", template.id, confirmation.occurrence_date)]
    /\ UNCHANGED <<now, store, editingBooking, jobs>>

\* the writes of resolveTemplateOccurrence reach the store
FinishResolve(c) ==
    LET r == inflight[c]
    IN  /\ r.kind = "resolve"
        /\ \E template \in booking_templates :
            /\ template.id = r.template_id
            /\ ResolveWrites(c, TRUE, template, r.member_id, r.date, r.status)
        /\ inflight' = [inflight EXCEPT ![c] = NoRequest]
        /\ UNCHANGED <<now, members, booking_templates, editingBooking, jobs>>

\* handleResolvePendingBooking up to sending its update
BeginResolveUsage(c, booking, usageStatus) ==
    /\ inflight[c].kind = Idle
    /\ booking \in bookings
    /\ isPendingBooking(booking)
    /\ canResolve(c, booking)
    /\ inflight' = [inflight EXCEPT ![c] =
           Request("usage", booking.id, {}, NoMember, 0, 0, usageStatus, NoId, 0)]
    /\ UNCHANGED <<now, store, editingBooking, jobs>>

\* the conditional update of handleResolvePendingBooking reaches the store
FinishResolveUsage(c) ==
    LET r == inflight[c]
    IN  /\ r.kind = "usage"
        /\ bookings' = ResolveUsageWrite(c, r.id, r.status)
        /\ inflight' = [inflight EXCEPT ![c] = NoRequest]
        /\ UNCHANGED <<now, members, nextBookingId, booking_templates,
                       template_exceptions, template_confirmations, editingBooking, jobs>>

\* --------------------------------------------------------- specification
\* the member picked in the form (admins only); NoMember is the empty select
Members == {"m", "g", NoMember}

\* the start / end pairs typed into the form: every ordered pair, an empty
\* window and a reversed one
TimeInputs ==
    { p \in Slots \X Slots : p[1] < p[2] }
        \cup {<<OpenSlot, OpenSlot>>, <<OpenSlot + 1, OpenSlot>>}

Statuses == {"confirmed", "cancelled"}

\* the handlers run one at a time, each on the row just clicked
Next ==
    \/ Tick
    \/ \E c \in Actors, boatIds \in (SUBSET Boats) \ {{}}, mem \in Members,
          d \in Dates, p \in TimeInputs :
           SaveBookingCreate(c, boatIds, mem, d, p[1], p[2])
    \/ \E c \in Actors, boat \in Boats, mem \in Members,
          d \in Dates, p \in TimeInputs :
           \E editing \in Forms(c) : SaveBookingUpdate(c, editing, boat, mem, d, p[1], p[2])
    \/ \E c \in Actors : \E editing \in Forms(c) : DeleteBooking(c, editing)
    \/ \E c \in Actors, b \in bookings, u \in Statuses : ResolvePendingBooking(c, b, u)
    \/ UsageSweep
    \/ \E c \in Actors, r \in template_confirmations, u \in Statuses :
           ResolveTemplateConfirmation(c, r, u)
    \/ \E c \in Actors, t \in booking_templates, d \in Dates :
           ConfirmTemplateBooking(c, t, d)

Spec == Init /\ [][Next]_vars

\* the same handlers with edit forms that stay open while others act
NextForms ==
    \/ Next
    \/ \E c \in Actors, b \in bookings : OpenBooking(c, b)
    \/ \E c \in Actors : CloseBooking(c)

InitForms ==
    InitWith({ t \in SeedTemplates : t.member_id = "m" }, MaxBookings)

SpecForms == InitForms /\ [][NextForms]_vars

\* two bookings can be stored
InitOverlap ==
    InitWith({ t \in SeedTemplates : t.member_id = "m" }, MaxBookings - 1)

SpecOverlap == InitOverlap /\ [][Next]_vars

\* one of the templates has no boat
InitGeneric ==
    InitWith({GenericTemplate} \cup { t \in SeedTemplates : t.member_id = "m" },
             MaxBookings)

SpecGeneric == InitGeneric /\ [][Next]_vars

\* two templates back to back on one boat and weekday, and one without boat
\* over the same time of day
AdjacentTemplates ==
    { t \in SeedTemplates : t.member_id = "m" } \cup
    { [id |-> 5, weekday |-> 0, boat_id |-> 1, member_id |-> "g",
       start_time |-> 2 * (OpenSlot + 1), end_time |-> 2 * (OpenSlot + 2)],
      GenericTemplate }

\* the weekdays of the template view
Weekdays == { getWeekdayIndex(d) : d \in Dates }

\* the admin works on the templates while members answer for occurrences
NextTemplates ==
    \/ Tick
    \/ \E c \in Actors, id \in { t.id : t \in booking_templates } \cup {NoId},
          mem \in Members, weekday \in Weekdays, boat \in Boats \cup {NoBoat},
          p \in TimeInputs :
           SaveTemplate(c, id, mem, weekday, boat, p[1], p[2])
    \/ \E c \in Actors, t \in booking_templates : DeleteTemplateRow(c, t)
    \/ \E c \in Actors, r \in template_confirmations, u \in Statuses :
           ResolveTemplateConfirmation(c, r, u)
    \/ \E c \in Actors, t \in booking_templates, d \in Dates :
           ConfirmTemplateBooking(c, t, d)
    \/ \E c \in Actors, t \in booking_templates, d \in Dates :
           DeleteTemplate(c, t, d)

InitTemplates == InitWith(AdjacentTemplates, MaxBookings)

SpecTemplates == InitTemplates /\ [][NextTemplates]_vars

\* the only template sits on the captains-permission boat
InitCaptains == InitWith({CaptainsTemplate}, MaxBookings)

SpecCaptains == InitCaptains /\ [][Next]_vars

\* members can be removed while their bookings stay
NextAccess ==
    \/ Tick
    \/ \E c \in Actors, boatIds \in (SUBSET Boats) \ {{}}, mem \in Members,
          d \in Dates, p \in TimeInputs :
           SaveBookingCreate(c, boatIds, mem, d, p[1], p[2])
    \/ \E c \in Actors, b \in bookings, u \in Statuses : ResolvePendingBooking(c, b, u)
    \/ UsageSweep
    \/ \E c \in Actors, target \in Actors : DeleteAccess(c, target)

InitAccess == InitWith({}, MaxBookings - 1)

SpecAccess == InitAccess /\ [][NextAccess]_vars

\* the create and resolve requests of several clients interleave at the store
NextRace ==
    \/ \E c \in Actors, boatIds \in (SUBSET Boats) \ {{}}, mem \in Members,
          d \in Dates, p \in TimeInputs :
           BeginCreate(c, boatIds, mem, d, p[1], p[2])
    \/ \E c \in Actors : FinishCreate(c)
    \/ \E c \in Actors, r \in template_confirmations : BeginResolve(c, r)
    \/ \E c \in Actors : FinishResolve(c)

SpecRace == InitOverlap /\ [][NextRace]_vars

\* templates whose occurrences fall into the windows of the template sweep
SweepTemplates ==
    { [id |-> 1, weekday |-> 1, boat_id |-> 1, member_id |-> "m",
       start_time |-> 2 * OpenSlot, end_time |-> 2 * (OpenSlot + 1)],
      [id |-> 2, weekday |-> 3, boat_id |-> 1, member_id |-> "m",
       start_time |-> 2 * (OpenSlot + 1), end_time |-> 2 * (OpenSlot + 2)] }

\* the dates the schedule is opened on while the sweep runs
SweepDates == 0..(MaxToday + NotifyAhead)

\* the template sweep, run any number of times a day, and the members'
\* answers: no confirmation exists before the first run
NextSweep ==
    \/ NextDay
    \/ TemplateSweep
    \/ \E c \in Actors, r \in template_confirmations, u \in Statuses :
           ResolveTemplateConfirmation(c, r, u)
    \/ \E c \in Actors, t \in booking_templates, d \in SweepDates :
           ConfirmTemplateBooking(c, t, d)
    \/ \E c \in Actors, t \in booking_templates, d \in SweepDates :
           DeleteTemplate(c, t, d)

InitSweep == InitStore(SweepTemplates, MaxBookings - 1, {})

SpecSweep == InitSweep /\ [][NextSweep]_vars

\* the template sweep awaiting its store calls one by one, any of which may
\* fail, while the members answer
NextSweepRun ==
    \/ NextDay
    \/ BeginSweep
    \/ \E o \in RunTodo, fault \in SweepFaults,
          answers \in [SubscriptionIds -> PushAnswers] : SweepStep(o, fault, answers)
    \/ EndSweep
    \/ \E c \in Actors, r \in template_confirmations, u \in Statuses :
           ResolveTemplateConfirmation(c, r, u)
    \/ \E c \in Actors, t \in booking_templates, d \in SweepDates :
           ConfirmTemplateBooking(c, t, d)
    \/ \E c \in Actors, t \in booking_templates, d \in SweepDates :
           DeleteTemplate(c, t, d)

SpecSweepRun == InitSweep /\ [][NextSweepRun]_vars

\* a run of the handler now would write nothing and send nothing: the
\* store is as the day's run leaves it
SweepDone ==
    /\ SweepNotices = {}
    /\ SweepExceptions = template_exceptions
    /\ SweepConfirmations = template_confirmations

\* midnight of a day on which the handler, called with CRON_SECRET by the
\* scheduler, has run
DayAfterSweep ==
    /\ SweepDone
    /\ NextDay

\* the template sweep run without error at least once every day, and the
\* members' answers
NextDaily ==
    \/ DayAfterSweep
    \/ TemplateSweep
    \/ \E c \in Actors, r \in template_confirmations, u \in Statuses :
           ResolveTemplateConfirmation(c, r, u)
    \/ \E c \in Actors, t \in booking_templates, d \in SweepDates :
           ConfirmTemplateBooking(c, t, d)
    \/ \E c \in Actors, t \in booking_templates, d \in SweepDates :
           DeleteTemplate(c, t, d)

\* the scheduler calls the handler every day and the days go by
SpecDaily ==
    /\ InitSweep
    /\ [][NextDaily]_vars
    /\ WF_vars(TemplateSweep)
    /\ WF_vars(DayAfterSweep)

\* the template sweep alone, day after day, its store calls failing or not
NextSweepAlone ==
    \/ NextDay
    \/ BeginSweep
    \/ \E o \in RunTodo, fault \in SweepFaults,
          answers \in [SubscriptionIds -> PushAnswers] : SweepStep(o, fault, answers)
    \/ EndSweep

SpecSweepAlone == InitSweep /\ [][NextSweepAlone]_vars

\* a member who registered one push subscription (api/push/subscribe.js)
Subscriptions == { [id |-> 1, member_id |-> "m"] }

\* the three scheduled jobs, their inserts into the dedupe tables failing or
\* not and the push endpoint answering as it likes, while a member books
NextNotify ==
    \/ Tick
    \/ NextDay
    \/ \E p \in TimeInputs : SaveBookingCreate("m", {1}, "m", 0, p[1], p[2])
    \/ \E failed \in SUBSET { b.id : b \in bookings },
          answers \in [SubscriptionIds -> PushAnswers] : UsageSweepRun(failed, answers)
    \/ \E failed \in SUBSET { b.id : b \in bookings },
          answers \in [SubscriptionIds -> PushAnswers] : ReminderJob(failed, answers)
    \/ TemplateSweep

InitNotify ==
    /\ InitTables(SweepTemplates, MaxBookings, {})
    /\ InitJobs(Subscriptions)

SpecNotify == InitNotify /\ [][NextNotify]_vars

\* the usage resolutions of several clients interleave at the store
NextUsageRace ==
    \/ Tick
    \/ UsageSweep
    \/ \E c \in Actors, boatIds \in (SUBSET Boats) \ {{}}, mem \in Members,
          d \in Dates, p \in TimeInputs :
           SaveBookingCreate(c, boatIds, mem, d, p[1], p[2])
    \/ \E c \in Actors, b \in bookings, u \in Statuses : BeginResolveUsage(c, b, u)
    \/ \E c \in Actors : FinishResolveUsage(c)

InitUsageRace == InitWith({}, MaxBookings)

SpecUsageRace == InitUsageRace /\ [][NextUsageRace]_vars

\* ------------------------------------------------------------ properties
BookingById(rows, id) == { b \in rows : b.id = id }

\* C1: handlers run one at a time never leave two bookings of one boat, both
\* not cancelled, on overlapping half-open intervals
NoDoubleBooking ==
    \A b1 \in bookings, b2 \in bookings :
        (/\ b1.id # b2.id
         /\ b1.boat_id = b2.boat_id
         /\ b1.usage_status # "cancelled"
         /\ b2.usage_status # "cancelled")
            => ~(b1.start_time < b2.end_time /\ b1.end_time > b2.start_time)

\* two bookings share a boat on adjacent windows
TwoBookingsOneBoat ==
    \E b1 \in bookings, b2 \in bookings :
        /\ b1.id # b2.id
        /\ b1.boat_id = b2.boat_id
        /\ b1.end_time = b2.start_time

\* C2: with the conflict reads and the inserts of two clients interleaved, an
\* insert that reaches the store never adds a booking overlapping another
\* non-cancelled booking of the same boat, so at most one of two racing
\* requests succeeds
RacingInsertsExclude ==
    [][\A b \in bookings' \ bookings :
          \A x \in bookings' \ {b} :
              (x.boat_id = b.boat_id /\ x.usage_status # "cancelled")
                  => ~(x.start_time < b.end_time /\ x.end_time > b.start_time)]_vars

\* C3: a booking that is pending, confirmed or cancelled is neither deleted
\* nor given another boat, member or window by any Update or Delete
SettledRowsImmutable ==
    [][\A b \in bookings :
          b.usage_status \in {"pending", "confirmed", "cancelled"}
              => \E x \in bookings' :
                     /\ x.id = b.id
                     /\ x.boat_id = b.boat_id
                     /\ x.member_id = b.member_id
                     /\ x.start_time = b.start_time
                     /\ x.end_time = b.end_time]_vars

\* the rows a run of the sweep would move, as the claim states them
EndedScheduled(b) == b.usage_status = "scheduled" /\ b.end_time < now

\* C4 as stated: a run of the usage sweep moves to pending exactly the
\* bookings that are scheduled with end_time < now and changes no other row
SweepMovesEveryEnded ==
    UsageSweepWrite =
        { IF EndedScheduled(b) THEN [b EXCEPT !.usage_status = "pending"] ELSE b
          : b \in bookings }

\* C4: a run of the usage sweep moves to pending exactly the bookings that
\* are scheduled with end_time < now and still have a member, and changes no
\* other row
SweepMovesEndedWithMember ==
    UsageSweepWrite =
        { IF EndedScheduled(b) /\ b.member_id # NoMember
          THEN [b EXCEPT !.usage_status = "pending"] ELSE b
          : b \in bookings }

\* the sweep has moved one booking and left an ended one without member
SweepSkippedMemberless ==
    /\ \E b \in bookings : b.usage_status = "pending"
    /\ \E b \in bookings : EndedScheduled(b) /\ b.member_id = NoMember

\* C5: usage_status only moves scheduled -> pending (by the sweep) and
\* pending -> confirmed / cancelled (by the usage resolution); a new booking
\* is scheduled; nothing moves back or between confirmed and cancelled
UsageLifecycle ==
    [][/\ \A b \in bookings, x \in bookings' :
              x.id = b.id =>
                  \/ x.usage_status = b.usage_status
                  \/ /\ b.usage_status = "scheduled"
                     /\ x.usage_status = "pending"
                     /\ UsageSweep
                  \/ /\ b.usage_status = "pending"
                     /\ x.usage_status \in {"confirmed", "cancelled"}
                     /\ \E c \in Actors : ResolvePendingBooking(c, b, x.usage_status)
       /\ \A x \in bookings' :
              BookingById(bookings, x.id) = {} => x.usage_status = "scheduled"]_vars

\* a booking went the whole way to cancelled
BookingCancelled == \E b \in bookings : b.usage_status = "cancelled"

\* C6: once a booking is confirmed or cancelled, a further usage resolution
\* on it is reported as an error and leaves the row as it is
SecondResolveUsageFails ==
    \A b \in bookings :
        isSettledBooking(b) =>
            \A c \in Actors, u \in Statuses :
                /\ ResolveUsageWrite(c, b.id, u) = bookings
                /\ ResolveUsageBanner(c, b) = "error"

\* C7: of the usage resolutions in flight for one pending booking exactly one
\* takes effect: status, confirmed_at and confirmed_by come from one request,
\* an admin's request on a pending row always lands, and a settled row is not
\* overwritten
UsageRaceOneWinner ==
    [][/\ \A b \in bookings : isSettledBooking(b) => b \in bookings'
       /\ \A b \in bookings, x \in bookings' :
              (isPendingBooking(b) /\ x.id = b.id /\ x # b) =>
                  \E c \in Actors :
                      /\ inflight[c].kind = "usage"
                      /\ inflight[c].id = b.id
                      /\ inflight'[c] = NoRequest
                      /\ x = [b EXCEPT !.usage_status = inflight[c].status,
                                       !.usage_confirmed_at = now,
                                       !.usage_confirmed_by = c]
       /\ \A c \in Actors, b \in bookings :
              (/\ isAdmin(c)
               /\ FinishResolveUsage(c)
               /\ inflight[c].id = b.id
               /\ isPendingBooking(b))
                  => \E x \in bookings' : x.id = b.id /\ isSettledBooking(x)]_vars

\* a booking is settled by one client while the other's request with the
\* other outcome is still on its way
UsageRaceLoserInFlight ==
    \E b \in bookings, c \in Actors :
        /\ isSettledBooking(b)
        /\ b.usage_confirmed_by # c
        /\ inflight[c].kind = "usage"
        /\ inflight[c].id = b.id
        /\ inflight[c].status # b.usage_status

\* C8: nothing a non-admin submits changes a booking of another member:
\* update, delete and usage resolution leave the rows as they are, and the
\* resolution of another member's template confirmation or template
\* occurrence does nothing
NoWriteByStranger ==
    \A c \in Actors :
        ~isAdmin(c) =>
            /\ \A b \in bookings :
                   b.member_id # c =>
                       /\ \A u \in Statuses : ResolveUsageWrite(c, b.id, u) = bookings
                       /\ \A editing \in Forms(c) :
                              editing.id = b.id =>
                                  /\ DeleteWrite(c, editing) = bookings
                                  /\ \A boat \in Boats, d \in Dates, p \in TimeInputs :
                                         UpdateWrite(c, editing, boat, c, toDateTime(d, p[1]),
                                                     toDateTime(d, p[2])) = bookings
            /\ \A r \in template_confirmations, u \in Statuses :
                   r.member_id # c => ~ENABLED ResolveTemplateConfirmation(c, r, u)
            /\ \A t \in booking_templates, d \in Dates :
                   t.member_id # c => ~ENABLED ConfirmTemplateBooking(c, t, d)

\* a member still holds the edit form of a booking that was given to another
StaleOwnerForm ==
    \E b \in bookings :
        /\ editingBooking.id = b.id
        /\ ~isAdmin(editingBooking.client)
        /\ editingBooking.client # NoMember
        /\ b.member_id # editingBooking.client

\* the bookings sitting on the window of an occurrence of a template
OccurrenceBookings(rows, t, d) ==
    { b \in rows : /\ b.boat_id = t.boat_id
                   /\ b.start_time = toDateTime(d, normalizeTime(t.start_time))
                   /\ b.end_time = toDateTime(d, normalizeTime(t.end_time)) }

\* C9: once an occurrence is confirmed into its booking, confirming it again
\* does nothing: one booking sits on the occurrence and the confirmation
\* stays confirmed
ConfirmTwiceOneBooking ==
    \A r \in template_confirmations, t \in booking_templates :
        (/\ t.id = r.template_id
         /\ r.status = "confirmed"
         /\ r.booking_id \in { b.id : b \in OccurrenceBookings(bookings, t, r.occurrence_date) })
            => /\ Cardinality(OccurrenceBookings(bookings, t, r.occurrence_date)) = 1
               /\ \A c \in Actors :
                      /\ ~ENABLED ResolveTemplateConfirmation(c, r, "confirmed")
                      /\ ~ENABLED ConfirmTemplateBooking(c, t, r.occurrence_date)

\* an occurrence is confirmed and its booking stands
OccurrenceConfirmed ==
    \E r \in template_confirmations, t \in booking_templates :
        /\ t.id = r.template_id
        /\ r.status = "confirmed"
        /\ r.booking_id \in { b.id : b \in OccurrenceBookings(bookings, t, r.occurrence_date) }

\* what a successful resolution of occurrence (t, d) with outcome u leaves
ResolvedAs(t, d, u) ==
    /\ <<t.id, d>> \in template_exceptions'
    /\ \E r \in ConfirmationAt(template_confirmations', t.id, d) :
        /\ r.status = u
        /\ r.responded_at # NullTime
        /\ IF u = "confirmed"
           THEN \E b \in OccurrenceBookings(bookings', t, d) \ bookings :
                    /\ b.usage_status = "scheduled"
                    /\ r.booking_id = b.id
                    /\ bookings' = bookings \cup {b}
           ELSE bookings' = bookings

BoatlessConfirmRejected ==
    \A t \in booking_templates :
        t.boat_id = NoBoat =>
            \A c \in Actors :
                /\ \A r \in template_confirmations :
                       r.template_id = t.id =>
                           ~ENABLED ResolveTemplateConfirmation(c, r, "confirmed")
                /\ \A d \in Dates : ~ENABLED ConfirmTemplateBooking(c, t, d)

\* the owner of a template without boat has its pending confirmation in the
\* list, no booking stands in the way, and removing the occurrence would work
BoatlessPendingListed ==
    \E t \in booking_templates, r \in template_confirmations :
        /\ t.boat_id = NoBoat
        /\ r.template_id = t.id
        /\ r.status = "pending"
        /\ r.listed
        /\ canResolveTemplate(t.member_id, r)
        /\ bookings # {}
        /\ ENABLED ResolveTemplateConfirmation(t.member_id, r, "cancelled")

\* C12: while an exception exists for (template, date), the schedule of that
\* date shows no occurrence of the template, and a run of the template sweep
\* leaves the confirmation of the pair as it is: no pending row is created,
\* nothing is notified and nothing is auto-cancelled for it
TemplateExclusivity ==
    \A e \in template_exceptions :
        /\ \A t \in booking_templates : t.id = e[1] => t \notin scheduleItems(e[2])
        /\ ConfirmationAt(SweepConfirmations, e[1], e[2])
               = ConfirmationAt(template_confirmations, e[1], e[2])
        /\ \A n \in SweepNotices : ~(n[3] = e[1] /\ n[4] = e[2])
        /\ \A o \in SweepCancels : ~(o[1].id = e[1] /\ o[2] = e[2])
        /\ \A t \in SweepAsks : ~(t.id = e[1] /\ notificationDate = e[2])

\* a member confirmed an occurrence that now lies in the windows of the
\* sweep, and the same run has another occurrence to work on
ExceptedInSweepWindow ==
    \E e \in template_exceptions, t \in booking_templates :
        /\ t.id = e[1]
        /\ getWeekdayIndex(e[2]) = t.weekday
        /\ e[2] \in autoCancelDates \cup {notificationDate}
        /\ e[2] >= DateOf(now)
        /\ \E r \in ConfirmationAt(template_confirmations, e[1], e[2]) :
               r.status = "confirmed"
        /\ SweepAsks \cup { o[1] : o \in SweepCancels } # {}

\* C13: the template part of the conflict check of handleSaveBooking passes
\* over suppressed occurrences: a template with an exception on a date is not
\* among the template conflicts of a booking of its boat on that date,
\* whatever the window
ExceptedTemplateNotBlocking ==
    \A e \in template_exceptions, t \in booking_templates :
        (t.id = e[1] /\ t.boat_id # NoBoat) =>
            \A p \in TimeInputs :
                t \notin TemplateConflicts({t.boat_id}, e[2], toDateTime(e[2], p[1]),
                                           toDateTime(e[2], p[2]))

\* the rows of bookings' that a step inserted or gave another boat or window
Written(x) ==
    \A b \in bookings :
        ~(/\ b.id = x.id
          /\ b.boat_id = x.boat_id
          /\ b.start_time = x.start_time
          /\ b.end_time = x.end_time)

\* the templates with an occurrence, not suppressed, on the boat and inside
\* the window of booking x
OccurrencesUnder(x) ==
    { t \in booking_templates :
        /\ t.boat_id = x.boat_id
        /\ t.weekday = getWeekdayIndex(DateOf(x.start_time))
        /\ <<t.id, DateOf(x.start_time)>> \notin template_exceptions
        /\ OccurrenceStart(t, DateOf(x.start_time)) < x.end_time
        /\ OccurrenceEnd(t, DateOf(x.start_time)) > x.start_time }

\* a step of handleSaveBooking, create or update
SaveStep ==
    \/ \E c \in Actors, boatIds \in (SUBSET Boats) \ {{}}, mem \in Members,
          d \in Dates, p \in TimeInputs :
           SaveBookingCreate(c, boatIds, mem, d, p[1], p[2])
    \/ \E c \in Actors, boat \in Boats, mem \in Members,
          d \in Dates, p \in TimeInputs :
           \E editing \in Forms(c) : SaveBookingUpdate(c, editing, boat, mem, d, p[1], p[2])

InvalidWindowRejected ==
    /\ \A b \in bookings : b.end_time > b.start_time
    /\ \A c \in Actors, d \in Dates, p \in TimeInputs :
           (\/ p[2] <= p[1]
            \/ p[1] < OpenSlot
            \/ toDateTime(d, p[1]) < now)
               => /\ \A boatIds \in (SUBSET Boats) \ {{}}, mem \in Members :
                         ~ENABLED SaveBookingCreate(c, boatIds, mem, d, p[1], p[2])
                  /\ \A boat \in Boats, mem \in Members, editing \in Forms(c) :
                         ~ENABLED SaveBookingUpdate(c, editing, boat, mem, d, p[1], p[2])

\* a booking that started at the floor of its date is stored and still
\* scheduled while the clock is past its start
BookingAtFloorStarted ==
    \E b \in bookings :
        /\ b.start_time = toDateTime(DateOf(b.start_time), OpenSlot)
        /\ b.usage_status = "scheduled"
        /\ now > b.start_time

\* actor c may not book boat under the usage rules
UsageForbids(c, boat) ==
    \/ UsageType(boat) = "restricted"
    \/ /\ UsageType(boat) = "captains permission"
       /\ ~isAdmin(c)
       /\ <<boat, c>> \notin BoatPermissions

\* C16: no path puts a booking on a boat the usage rules close to the actor:
\* Create with the boat among the selected ones, Update to the boat, and
\* the confirmation of an occurrence of a template of the boat, from the
\* schedule or from the pending list, all write nothing
UsageRulesOnEveryPath ==
    \A c \in Actors, boat \in Boats :
        UsageForbids(c, boat) =>
            /\ \A boatIds \in (SUBSET Boats) \ {{}}, mem \in Members,
                  d \in Dates, p \in TimeInputs :
                   boat \in boatIds
                       => ~ENABLED SaveBookingCreate(c, boatIds, mem, d, p[1], p[2])
            /\ \A editing \in Forms(c), mem \in Members, d \in Dates, p \in TimeInputs :
                   (\A b \in BookingById(bookings, editing.id) : b.boat_id # boat)
                       => ~ENABLED SaveBookingUpdate(c, editing, boat, mem, d, p[1], p[2])
            /\ \A t \in booking_templates :
                   t.boat_id = boat =>
                       /\ \A d \in Dates : ~ENABLED ConfirmTemplateBooking(c, t, d)
                       /\ \A r \in template_confirmations :
                              r.template_id = t.id
                                  => ~ENABLED ResolveTemplateConfirmation(c, r, "confirmed")

\* the boats of a request that either conflict check of handleSaveBooking
\* finds taken
TakenBoats(boatIds, d, start, end) ==
    { b \in boatIds : \/ BookingConflicts({b}, start, end, NoId) # {}
                      \/ TemplateConflicts({b}, d, start, end) # {} }

\* C17: a valid batch Create over several boats of which some, not all, are
\* taken writes the rows of the free boats
BatchCreatesFreeBoats ==
    \A c \in Actors, boatIds \in (SUBSET Boats) \ {{}}, mem \in Members,
       d \in Dates, p \in TimeInputs :
        LET memberId == EffectiveMember(c, mem)
            start == toDateTime(d, p[1])
            end == toDateTime(d, p[2])
            taken == TakenBoats(boatIds, d, start, end)
        IN  (/\ SaveChecksPass(c, NoEditing, boatIds, memberId, d, p[1], p[2])
             /\ StoreAcceptsBooking(c, memberId, start, end)
             /\ taken # {}
             /\ taken # boatIds
             /\ nextBookingId + Cardinality(boatIds \ taken) - 1 <= MaxBookings)
                => ENABLED SaveBookingCreate(c, boatIds, mem, d, p[1], p[2])

\* C18: a resolution that ends in an error leaves the store as it was: when
\* resolveTemplateOccurrence throws at the exception upsert or at the
\* confirmation write, no booking inserted by that call remains
FailedResolveWritesNothing ==
    [][/\ \A c \in Actors, r \in template_confirmations, u \in Statuses,
             t \in booking_templates :
              (/\ t.id = r.template_id
               /\ ResolveTemplateConfirmation(c, r, u)
               /\ ~ResolveSucceeds(c, TRUE, t, r.member_id, r.occurrence_date, u))
                  => UNCHANGED store
       /\ \A c \in Actors, t \in booking_templates, d \in Dates :
              (/\ ConfirmTemplateBooking(c, t, d)
               /\ ~ResolveSucceeds(c, FALSE, t, t.member_id, d, "confirmed"))
                  => UNCHANGED store]_vars

\* no two templates of one weekday and one boat overlap in time of day, and
\* every template ends after it starts
TemplatesDisjoint(rows) ==
    /\ \A t \in rows : t.end_time > t.start_time
    /\ \A t1 \in rows, t2 \in rows :
           (/\ t1.id # t2.id
            /\ t1.weekday = t2.weekday
            /\ t1.boat_id = t2.boat_id
            /\ t1.boat_id # NoBoat)
               => ~(t1.start_time < t2.end_time /\ t1.end_time > t2.start_time)

\* C19: the stored templates never overlap on a weekday and boat and end
\* after they start; a create or edit that passes the checks of
\* handleSaveTemplate keeps that, whether or not the store takes the row; and
\* saving a template with its own values finds no conflict
TemplatesNeverOverlap ==
    /\ TemplatesDisjoint(booking_templates)
    /\ \A c \in Actors, id \in { t.id : t \in booking_templates } \cup {NoId},
          mem \in Members \ {NoMember}, weekday \in Weekdays,
          boat \in Boats \cup {NoBoat}, p \in TimeInputs :
           /\ TemplatesDisjoint(TemplateSaveWrite(c, id, mem, weekday, boat, p[1], p[2]))
           /\ TemplateSaveAllowed(c, id, mem, weekday, boat, p[1], p[2])
                  => TemplatesDisjoint(TemplateSaved(id, mem, weekday, boat, p[1], p[2]))
    /\ \A t \in booking_templates :
           t.member_id # NoMember =>
               TemplateSaveAllowed("a", t.id, t.member_id, t.weekday, t.boat_id,
                                   normalizeTime(t.start_time), normalizeTime(t.end_time))

\* a template was deleted and two templates still stand back to back on one
\* boat and weekday
TemplateRowDeleted ==
    /\ Cardinality(booking_templates) < Cardinality(AdjacentTemplates)
    /\ \E t1 \in booking_templates, t2 \in booking_templates :
           /\ t1.weekday = t2.weekday
           /\ t1.boat_id = t2.boat_id
           /\ t1.boat_id # NoBoat
           /\ t1.end_time = t2.start_time

\* the rows of template_confirmations' for the occurrence of row r
SameOccurrence(r) == ConfirmationAt(template_confirmations', r.template_id, r.occurrence_date)

\* a row of template_confirmations' whose occurrence had no row before
Appears(x) ==
    ConfirmationAt(template_confirmations, x.template_id, x.occurrence_date) = {}

\* a step of the template sweep run
SweepRunStep ==
    \E o \in RunTodo, fault \in SweepFaults,
      answers \in [SubscriptionIds -> PushAnswers] : SweepStep(o, fault, answers)

\* C20 as stated: a confirmation first appears with status pending, a
\* pending one moves to confirmed or cancelled only, and a confirmed or
\* cancelled one never changes again
ConfirmationStartsPending ==
    [][/\ \A x \in template_confirmations' : Appears(x) => x.status = "pending"
       /\ \A r \in template_confirmations :
              IF r.status = "pending"
              THEN SameOccurrence(r) # {}
              ELSE r \in template_confirmations']_vars

\* C20: a confirmation first appears as pending, inserted by the sweep, or
\* already confirmed or cancelled with responded_at stamped, written by the
\* confirmation from the schedule, the removal of the occurrence or the
\* auto-cancel of the sweep; a pending one stays or moves to confirmed or
\* cancelled; a confirmed or cancelled one never changes again
ConfirmationLifecycle ==
    [][/\ \A x \in template_confirmations' :
              Appears(x) =>
                  \/ x.status = "pending" /\ TemplateSweep
                  \/ x.status \in {"confirmed", "cancelled"} /\ x.responded_at = now
       /\ \A r \in template_confirmations :
              IF r.status = "pending"
              THEN /\ SameOccurrence(r) # {}
                   /\ \A x \in SameOccurrence(r) :
                          x.status # "pending" => x.responded_at = now
              ELSE r \in template_confirmations']_vars

\* one confirmation was asked for by the sweep and then answered, another
\* appeared already resolved
ResolvedWithoutPending ==
    /\ \E r \in template_confirmations :
           r.status \in {"confirmed", "cancelled"} /\ r.notified_at # NullTime
    /\ \E r \in template_confirmations :
           r.status \in {"confirmed", "cancelled"} /\ r.notified_at = NullTime

\* C21: a step of the template sweep never sets a confirmed row to pending
\* or cancelled and never sets a cancelled row to pending, whatever the
\* members committed since the run read the confirmations
SweepKeepsTerminal ==
    [][\A r \in template_confirmations :
          (\E x \in SameOccurrence(r) :
               \/ r.status = "confirmed" /\ x.status # "confirmed"
               \/ r.status = "cancelled" /\ x.status = "pending")
              => ~SweepRunStep]_vars

\* a run of the usage sweep, whatever its inserts and the endpoints answer
UsageRunStep ==
    \E failed \in SUBSET { b.id : b \in bookings },
      answers \in [SubscriptionIds -> PushAnswers] : UsageSweepRun(failed, answers)

\* the status of every confirmation among rows
StatusesOf(rows) == { <<r.template_id, r.occurrence_date, r.status>> : r \in rows }

\* C22: after a run of the usage sweep or of the template sweep, a second
\* run at the same time would change no usage_status, no exception and no
\* confirmation status, and would send no message
SweepsIdempotent ==
    [][/\ UsageRunStep =>
              /\ UsageSweepWrite' = bookings'
              /\ UsageNotices({})' = {}
       /\ TemplateSweep =>
              /\ SweepExceptions' = template_exceptions'
              /\ StatusesOf(SweepConfirmations') = StatusesOf(template_confirmations')
              /\ SweepNotices' = {}]_vars

\* how often a message was handed to sendToMember
Sent(x, n) == IF n \in DOMAIN x THEN x[n] ELSE 0

\* C23: after a run of the template sweep every template with a member
\* whose weekday is that of the date three days ahead and that has no
\* exception for it has a confirmation with notified_at set; a row whose
\* notified_at was set keeps it and is not asked about again; no request
\* for a confirmation has been sent twice
SweepAsksOnce ==
    [][TemplateSweep =>
          /\ \A t \in booking_templates :
                 (/\ t.member_id # NoMember
                  /\ getWeekdayIndex(notificationDate) = t.weekday
                  /\ <<t.id, notificationDate>> \notin template_exceptions)
                     => \E r \in ConfirmationAt(template_confirmations', t.id,
                                                notificationDate) :
                            r.notified_at # NullTime
          /\ \A r \in template_confirmations :
                 r.notified_at # NullTime =>
                     /\ \A x \in SameOccurrence(r) : x.notified_at = r.notified_at
                     /\ \A m \in Members :
                            LET n == <<m, "needs confirmation", r.template_id,
                                       r.occurrence_date>>
                            IN  Sent(pushed', n) = Sent(pushed, n)
          /\ \A n \in DOMAIN pushed' :
                 n[2] = "needs confirmation" => pushed'[n] <= 1]_vars

\* a member was asked once about an occurrence that is still pending
AskedOnce ==
    \E r \in template_confirmations :
        /\ r.status = "pending"
        /\ r.notified_at # NullTime
        /\ Sent(pushed, <<r.member_id, "needs confirmation", r.template_id,
                          r.occurrence_date>>) = 1

\* the removal message of the occurrence of template t on date d
Removal(t, d) == <<t.member_id, "removed", t.id, d>>

\* C24: after a run of the template sweep every occurrence of a member's
\* template one or two days ahead that had no exception and no confirmed
\* confirmation has an exception and a cancelled confirmation with
\* responded_at set; its removal message is sent exactly when it was not
\* cancelled before; an occurrence with a confirmed confirmation keeps its
\* row, gets no exception and no message
SweepAutoCancels ==
    [][TemplateSweep =>
          \A t \in booking_templates, d \in autoCancelDates :
              (t.member_id # NoMember /\ getWeekdayIndex(d) = t.weekday) =>
                  LET prior == ConfirmationAt(template_confirmations, t.id, d)
                      after == ConfirmationAt(template_confirmations', t.id, d)
                  IN  IF \E r \in prior : r.status = "confirmed"
                      THEN /\ after = prior
                           /\ <<t.id, d>> \in template_exceptions'
                                  <=> <<t.id, d>> \in template_exceptions
                           /\ Sent(pushed', Removal(t, d)) = Sent(pushed, Removal(t, d))
                      ELSE <<t.id, d>> \notin template_exceptions =>
                           /\ <<t.id, d>> \in template_exceptions'
                           /\ after # {}
                           /\ \A x \in after : /\ x.status = "cancelled"
                                                /\ x.responded_at # NullTime
                           /\ Sent(pushed', Removal(t, d)) =
                                  Sent(pushed, Removal(t, d))
                                      + (IF \A r \in prior : r.status # "cancelled"
                                         THEN 1 ELSE 0)]_vars

\* the sweep removed an occurrence nobody had answered and told its member,
\* and passed over one the member had confirmed
AutoCancelled ==
    /\ \E r \in template_confirmations :
           /\ r.status = "cancelled"
           /\ r.booking_id = NoId
           /\ <<r.template_id, r.occurrence_date>> \in template_exceptions
           /\ Sent(pushed, <<r.member_id, "removed", r.template_id,
                             r.occurrence_date>>) = 1
    /\ \E r \in template_confirmations :
           r.status = "confirmed" /\ r.occurrence_date <= DateOf(now) + 2

\* C25: a step of a run that started today, failing or not, leaves the
\* store such that a whole run from it ends with the exceptions and the
\* confirmation statuses a whole run would have ended with before the step:
\* what a failed run has left undone, the next run does
RerunCompletes ==
    [][(sweepRun.today = DateOf(now) /\ SweepRunStep) =>
          /\ SweepExceptions' = SweepExceptions
          /\ StatusesOf(SweepConfirmations') = StatusesOf(SweepConfirmations)]_vars

\* the subscriptions left by a run that sent notices, the endpoints
\* answering answers: those of a member who was sent a message and whose
\* endpoint answered 404 or 410 are gone, every other one is kept
SubscriptionsKept(notices, answers) ==
    \A s \in push_subscriptions :
        s \in push_subscriptions' <=>
            ~(/\ \E n \in notices : n[1] = s.member_id
              /\ answers[s.id] \in {404, 410})

\* C26: whatever the push endpoints answer, a run of the template sweep
\* sets notified_at for every occurrence it asks about and writes the
\* exception and the cancelled confirmation of every occurrence it removes,
\* and a run of the usage sweep keeps the dedupe row of every booking whose
\* insert did not fail; a subscription is deleted exactly when its member
\* was sent a message and its endpoint answered 404 or 410
DeliveryBestEffort ==
    [][/\ \A answers \in [SubscriptionIds -> PushAnswers] :
              TemplateSweepWith(answers) =>
                  /\ \A n \in SweepNotices :
                         LET after == ConfirmationAt(template_confirmations', n[3], n[4])
                         IN  /\ after # {}
                             /\ n[2] = "needs confirmation" =>
                                    \A x \in after : x.notified_at # NullTime
                             /\ n[2] = "removed" =>
                                    /\ <<n[3], n[4]>> \in template_exceptions'
                                    /\ \A x \in after : x.status = "cancelled"
                  /\ SubscriptionsKept(SweepNotices, answers)
       /\ \A failed \in SUBSET { b.id : b \in bookings },
             answers \in [SubscriptionIds -> PushAnswers] :
              UsageSweepRun(failed, answers) =>
                  /\ \A n \in UsageNotices(failed) :
                         n[3] \notin failed => n[3] \in booking_usage_notifications'
                  /\ SubscriptionsKept(UsageNotices(failed), answers)]_vars

\* the only message ever sent found the endpoint gone: the subscription was
\* deleted and the state change the message went with was made all the same
UndeliveredButRecorded ==
    /\ push_subscriptions = {}
    /\ \E n \in DOMAIN pushed :
           /\ DOMAIN pushed = {n}
           /\ pushed[n] = 1
           /\ \/ /\ n[2] = "needs confirmation"
                 /\ \E r \in ConfirmationAt(template_confirmations, n[3], n[4]) :
                        r.notified_at # NullTime
              \/ /\ n[2] = "confirmation required"
                 /\ n[3] \in booking_usage_notifications

\* the occurrence of template t on date d is confirmed, or is removed with
\* an exception and a cancelled confirmation
Settled(t, d) ==
    \/ \E r \in ConfirmationAt(template_confirmations, t.id, d) : r.status = "confirmed"
    \/ /\ <<t.id, d>> \in template_exceptions
       /\ \E r \in ConfirmationAt(template_confirmations, t.id, d) :
              r.status = "cancelled"

\* C27: with the sweep run without error every day, every occurrence of a
\* member's template dated after the first day is eventually confirmed or
\* removed with an exception and a cancelled confirmation, and is so by the
\* time its date arrives
AutoCancelDeadline ==
    /\ [](\A t \in booking_templates, d \in SweepDates :
             (/\ t.member_id # NoMember
              /\ getWeekdayIndex(d) = t.weekday
              /\ 1 <= d
              /\ d <= DateOf(now)) => Settled(t, d))
    /\ \A t \in SweepTemplates, d \in 1..(MaxToday + 2) :
           getWeekdayIndex(d) = t.weekday => <>Settled(t, d)

\* an occurrence nobody answered stands removed on its own date
RemovedByItsDate ==
    \E r \in template_confirmations :
        /\ r.status = "cancelled"
        /\ r.booking_id = NoId
        /\ r.occurrence_date = DateOf(now)
        /\ Sent(pushed, <<r.member_id, "removed", r.template_id,
                          r.occurrence_date>>) = 1
        /\ <<r.template_id, r.occurrence_date>> \in template_exceptions

\* C28: every booking whose usage_status is pending, confirmed or cancelled
\* has ended before the current time
SettledBookingsEnded ==
    \A b \in bookings :
        b.usage_status \in {"pending", "confirmed", "cancelled"} => b.end_time < now

\* C29: a confirmed or cancelled confirmation has an exception for its
\* template and date
TerminalHasException ==
    \A r \in template_confirmations :
        r.status \in {"confirmed", "cancelled"} =>
            <<r.template_id, r.occurrence_date>> \in template_exceptions

\* a member confirmed one occurrence and another one was cancelled
BothTerminalExcepted ==
    /\ \E r \in template_confirmations :
           /\ r.status = "confirmed"
           /\ <<r.template_id, r.occurrence_date>> \in template_exceptions
    /\ \E r \in template_confirmations :
           /\ r.status = "cancelled"
           /\ <<r.template_id, r.occurrence_date>> \in template_exceptions

\* C30: no usage-confirmation message is handed to sendToMember twice for
\* a booking, and no reminder twice for a booking and start time
RemindersOnce ==
    /\ \A n \in DOMAIN pushed :
           n[2] \in {"confirmation required", "reminder"} => pushed[n] <= 1
    /\ \A n1, n2 \in DOMAIN pushed :
           (n1[2] = "confirmation required" /\ n2[2] = "confirmation required"
                /\ n1[3] = n2[3]) => n1 = n2

====
